---------------------------- MODULE Spec2Model ----------------------------
(***************************************************************************)
(* A model of the embedded IPFS node of src/main.go: the repository        *)
(* manager (createRepo), the node bootstrapper (create), the peer          *)
(* connector (connectToPeers) and the content resolver (fetch, add, get).  *)
(*                                                                         *)
(* The calls into go-ipfs, go-multiaddr and the operating system are the   *)
(* environment: each is an operator that yields the set of outcomes the    *)
(* call can have in the state it is made in.                               *)
(*                                                                         *)
(* Three specifications share the variables:                               *)
(*   SpecConnect  connectToPeers called with an arbitrary address list     *)
(*   SpecRepo     create / createRepo over several runs of the process on  *)
(*                the same repository location                            *)
(*   SpecFetch    fetch and get on a constructed node                      *)
(***************************************************************************)
EXTENDS Naturals, Sequences, FiniteSets

\* ------------------------------------------------------------------ bounds

\* longest address list handed to connectToPeers
MaxPeers == 3

\* runs of the process on the same repository location
MaxRuns == 3

\* calls of create within one process
MaxCreates == 2

\* ------------------------------------------------------ program constants

\* bits of the identity key createRepo asks config.Init for
KeySize == 2048

\* the repository location, fixed in createRepo
RepoPath == "/tmp/embedded-ipfs"

\* the six experimental features createRepo sets
Toggles ==
  {"FilestoreEnabled", "UrlstoreEnabled", "ShardingEnabled",
   "Libp2pStreamMounting", "P2pHttpProxy", "StrategicProviding"}

\* the bootstrap list fetch hands to connectToPeers
BootstrapNodes == << >>

\* -------------------------------------------------------------- universes

PeerIDs == {"QmA", "QmB"}
Hosts == {"h1", "h2"}
Protocols == {"ip4", "p2p"}

\* Address strings, as their "/"-separated components.
\*   /ip4/h/p2p/Qm   transport and identity
\*   /p2p/Qm         identity alone
\*   /ip4/h          no identity
\*   /bogus          not a multiaddr
AddrStrings ==
  {<<"ip4", h, "p2p", "QmA">> : h \in Hosts}
    \cup {<<"ip4", "h1", "p2p", "QmB">>, <<"p2p", "QmB">>}
    \cup {<<"ip4", "h1">>}
    \cup {<<"bogus">>}

PeerLists == UNION {[1..n -> AddrStrings] : n \in 0..MaxPeers}

Datas == {"d1", "d2"}
\* how content was imported: "v0" with the defaults of Unixfs().Add, "v1" with
\* other import parameters, which give the same content another DAG and CID
CidParams == {"v0", "v1"}
AllCids == [data : Datas, params : CidParams]
NoCid == [data |-> "none", params |-> "none"]

\* what the network can serve: d1 under both encodings, d2 under v0 only
NetBlocks == {c \in AllCids : c.data = "d1" \/ c.params = "v0"}

VARIABLES
  ctxCancelled,   \* the top-level context of main has been cancelled
  \* connectToPeers
  peers,          \* the address list of the call
  connPc,         \* idle, called, spawning, waiting, returned
  connRet,        \* none, nil, or the parse error returned
  peerInfos,      \* the map peer.ID -> Addrs built by the parse loop
  wg,             \* the WaitGroup counter
  gor,            \* per identity: none, spawned, dialing, done
  dials,          \* per identity: the Addrs of each Swarm().Connect call made
  dialRes,        \* per identity: none, ok, failed, cancelled
  connected,      \* the swarm's connected peers
  connLog,        \* identities logged as "failed to connect"
  \* createRepo / create
  run,            \* the run of the process
  flagExp,        \* *flagExp, the -experimental flag
  fsState,        \* what RepoPath holds: absent, dir, repo, corrupt
  repoCfg,        \* the config on disk: identity, key size, experimental
  keysGenerated,  \* identities generated so far
  crPc,           \* main and create: flags, plugins, createRepo, open, newNode, newCoreAPI, ready, panicked
  crRet,          \* what createRepo returned: path, err
  mkErr,          \* what os.Mkdir returned in createRepo
  crMsg,          \* what createRepo printed: none, creating, exists
  pluginLoads,    \* plugin injections in this process
  crPanic,        \* the step of create that panicked: none, plugins, repo, open, node, api
  creates,        \* calls of create in this process
  pluginInits,    \* plugin initializations (plugins.Initialize) in this process
  crSteps,        \* the steps this call of create has executed, each with its success
  \* fetch / get
  netUp,          \* the network is reachable
  localStore,     \* the CIDs held by the local block store
  fPc,            \* fetch: idle, resolving, adding, done, panicked
  fCid,           \* the CID string fetch was given
  fContent,       \* the content Unixfs().Get returned to fetch
  fRet,           \* the CID of the path fetch returned
  fErr,           \* the error fetch met
  fCalls,         \* the Unixfs() calls fetch has made and seen return, each with its error
  gPc,            \* get: idle, resolving, done, panicked
  gCid,           \* the CID string get was given
  gRet,           \* the content get returned
  gErr,           \* the error get met
  gSrc,           \* where Unixfs().Get found get's content: none, local, network
  crashed         \* a panic has ended the process

connVars ==
  <<peers, connPc, connRet, peerInfos, wg, gor, dials, dialRes, connected, connLog>>
repoVars ==
  <<run, flagExp, fsState, repoCfg, keysGenerated, crPc, crRet, mkErr, crMsg, pluginLoads,
    crPanic, creates, pluginInits, crSteps>>
fetchVars ==
  <<netUp, localStore, fPc, fCid, fContent, fRet, fErr, fCalls, gPc, gCid, gRet, gErr, gSrc, crashed>>
vars == <<ctxCancelled, connVars, repoVars, fetchVars>>

NoCfg == [identity |-> 0, keySize |-> 0, exp |-> [t \in Toggles |-> FALSE]]

Init ==
  /\ ctxCancelled = FALSE
  /\ peers = << >>
  /\ connPc = "idle"
  /\ connRet = "none"
  /\ peerInfos = << >>
  /\ wg = 0
  /\ gor = [p \in PeerIDs |-> "none"]
  /\ dials = [p \in PeerIDs |-> << >>]
  /\ dialRes = [p \in PeerIDs |-> "none"]
  /\ connected = {}
  /\ connLog = {}
  /\ run = 1
  /\ flagExp = FALSE
  /\ fsState = "absent"
  /\ repoCfg = NoCfg
  /\ keysGenerated = 0
  /\ crPc = "flags"
  /\ crRet = [path |-> "", err |-> "none"]
  /\ mkErr = "none"
  /\ crMsg = "none"
  /\ pluginLoads = 0
  /\ crPanic = "none"
  /\ creates = 1
  /\ pluginInits = 0
  /\ crSteps = << >>
  /\ netUp = TRUE
  /\ localStore = {}
  /\ fPc = "idle"
  /\ fCid = << >>
  /\ fContent = "none"
  /\ fRet = NoCid
  /\ fErr = "none"
  /\ fCalls = << >>
  /\ gPc = "idle"
  /\ gCid = << >>
  /\ gRet = "none"
  /\ gErr = "none"
  /\ gSrc = "none"
  /\ crashed = FALSE

\* main's deferred cancel, or a caller cancelling the context it passed
Cancel ==
  /\ ~ctxCancelled
  /\ ctxCancelled' = TRUE
  /\ UNCHANGED <<connVars, repoVars, fetchVars>>


\* --------------------------------------------------------- connectToPeers

\* ma.NewMultiaddr: the string is a sequence of protocol/value pairs
NewMultiaddrOk(s) ==
  /\ Len(s) > 0
  /\ Len(s) % 2 = 0
  /\ \A i \in 1..Len(s) : i % 2 = 1 => s[i] \in Protocols

\* peer.AddrInfoFromP2pAddr fails unless the last component is /p2p/<id>
HasP2pPart(m) == m[Len(m) - 1] = "p2p"

\* peer.AddrInfoFromP2pAddr: the identity is the last component, the
\* transport address is what precedes it (none for a bare /p2p/<id>)
AddrInfoFromP2pAddr(m) ==
  LET transport == SubSeq(m, 1, Len(m) - 2)
  IN  [ID |-> m[Len(m)],
       Addrs |-> IF transport = << >> THEN << >> ELSE <<transport>>]

\* the error of one iteration of the parse loop, "nil" when the string parses
ParseErr(s) ==
  IF ~NewMultiaddrOk(s) THEN "multiaddr"
  ELSE IF ~HasP2pPart(s) THEN "invalid p2p multiaddr"
  ELSE "nil"

\* an iteration that forgets the addresses already seen for the identity
MergeOverwrite(infos, pii) ==
  [x \in (DOMAIN infos) \cup {pii.ID} |->
     IF x = pii.ID THEN pii.Addrs ELSE infos[x]]

\* lines 138-143: find or create the identity's entry, append the addresses
Merge(infos, pii) ==
  LET pi == IF pii.ID \in DOMAIN infos THEN infos[pii.ID] ELSE << >>
  IN  [x \in (DOMAIN infos) \cup {pii.ID} |->
         IF x = pii.ID THEN pi \o pii.Addrs ELSE infos[x]]

\* a parse loop that skips a malformed string instead of returning
RECURSIVE ParseLoopSkip(_, _, _)
ParseLoopSkip(ps, i, infos) ==
  IF i > Len(ps) THEN [err |-> "nil", infos |-> infos]
  ELSE IF ParseErr(ps[i]) # "nil" THEN ParseLoopSkip(ps, i + 1, infos)
  ELSE ParseLoopSkip(ps, i + 1, Merge(infos, AddrInfoFromP2pAddr(ps[i])))

\* lines 129-144: the parse loop from string i on, with the map built so far
RECURSIVE ParseLoop(_, _, _)
ParseLoop(ps, i, infos) ==
  IF i > Len(ps) THEN [err |-> "nil", infos |-> infos]
  ELSE IF ParseErr(ps[i]) # "nil" THEN [err |-> ParseErr(ps[i]), infos |-> infos]
  ELSE ParseLoop(ps, i + 1, Merge(infos, AddrInfoFromP2pAddr(ps[i])))

\* a caller hands connectToPeers an address list
CallConnectToPeers(ps) ==
  /\ connPc = "idle"
  /\ peers' = ps
  /\ connPc' = "called"
  /\ UNCHANGED <<connRet, peerInfos, wg, gor, dials, dialRes, connected, connLog>>
  /\ UNCHANGED <<ctxCancelled, repoVars, fetchVars>>

\* lines 127-146: the parse loop, then wg.Add(len(peerInfos))
ConnParse ==
  /\ connPc = "called"
  /\ ~crashed
  /\ LET r == ParseLoop(peers, 1, << >>)
     IN  IF r.err # "nil"
         THEN /\ connRet' = r.err
              /\ connPc' = "returned"
              /\ UNCHANGED <<peerInfos, wg>>
         ELSE /\ peerInfos' = r.infos
              /\ wg' = Cardinality(DOMAIN r.infos)
              /\ connPc' = IF DOMAIN r.infos = {} THEN "waiting" ELSE "spawning"
              /\ UNCHANGED connRet
  /\ UNCHANGED <<peers, gor, dials, dialRes, connected, connLog>>
  /\ UNCHANGED <<ctxCancelled, repoVars, fetchVars>>

\* lines 147-155: one iteration of the range over the map, in map order
SpawnDial(id) ==
  /\ connPc = "spawning"
  /\ ~crashed
  /\ id \in DOMAIN peerInfos
  /\ gor[id] = "none"
  /\ gor' = [gor EXCEPT ![id] = "spawned"]
  /\ connPc' = IF \A x \in DOMAIN peerInfos : gor'[x] # "none"
               THEN "waiting" ELSE "spawning"
  /\ UNCHANGED <<peers, connRet, peerInfos, wg, dials, dialRes, connected, connLog>>
  /\ UNCHANGED <<ctxCancelled, repoVars, fetchVars>>

\* a dial that waits for the dials that have failed to be the only ones around
MayDialAfterOthers(id) ==
  /\ gor[id] = "spawned"
  /\ \A x \in PeerIDs : dialRes[x] \notin {"failed", "cancelled"}

\* line 148: a spawned goroutine runs whenever the scheduler picks it
MayDial(id) == gor[id] = "spawned"

\* line 150: the goroutine calls Swarm().Connect with its peer's AddrInfo
DialStart(id) ==
  /\ ~crashed
  /\ MayDial(id)
  /\ gor' = [gor EXCEPT ![id] = "dialing"]
  /\ dials' = [dials EXCEPT ![id] = Append(@, peerInfos[id])]
  /\ UNCHANGED <<peers, connPc, connRet, peerInfos, wg, dialRes, connected, connLog>>
  /\ UNCHANGED <<ctxCancelled, repoVars, fetchVars>>

\* Swarm().Connect under a context: a cancelled context ends the dial with
\* the context's error; otherwise the peer answers or it does not
ConnectOutcomes(cancelled) ==
  IF cancelled THEN {"cancelled"} ELSE {"ok", "failed"}

\* line 149: the deferred wg.Done runs however the dial ended
Done(n, res) == n - 1

\* lines 149-153: Connect returns, a failure is logged, wg.Done runs
DialFinish(id) ==
  /\ ~crashed
  /\ gor[id] = "dialing"
  /\ \E res \in ConnectOutcomes(ctxCancelled) :
       /\ dialRes' = [dialRes EXCEPT ![id] = res]
       /\ connected' = IF res = "ok" THEN connected \cup {id} ELSE connected
       /\ connLog' = IF res = "ok" THEN connLog ELSE connLog \cup {id}
       /\ wg' = Done(wg, res)
  /\ gor' = [gor EXCEPT ![id] = "done"]
  /\ UNCHANGED <<peers, connPc, connRet, peerInfos, dials>>
  /\ UNCHANGED <<ctxCancelled, repoVars, fetchVars>>

\* a wait that returns while dials are still running
WaitSkipped(n) == TRUE

\* line 156: wg.Wait returns when the counter is zero
WaitPasses(n) == n = 0

\* a return value that carries a dial failure
ConnectResultDialError(res) ==
  IF \E x \in PeerIDs : res[x] \in {"failed", "cancelled"} THEN "dial" ELSE "nil"

\* line 157: the return value after the join
ConnectResult(res) == "nil"

\* lines 156-157
ConnReturn ==
  /\ connPc = "waiting"
  /\ ~crashed
  /\ WaitPasses(wg)
  /\ connRet' = ConnectResult(dialRes)
  /\ connPc' = "returned"
  /\ UNCHANGED <<peers, peerInfos, wg, gor, dials, dialRes, connected, connLog>>
  /\ UNCHANGED <<ctxCancelled, repoVars, fetchVars>>

NextConnect ==
  \/ \E ps \in PeerLists : CallConnectToPeers(ps)
  \/ ConnParse
  \/ \E id \in PeerIDs : SpawnDial(id)
  \/ \E id \in PeerIDs : DialStart(id)
  \/ \E id \in PeerIDs : DialFinish(id)
  \/ ConnReturn
  \/ Cancel

SpecConnect == Init /\ [][NextConnect]_vars


\* ------------------------------------------------------ createRepo, create

\* lines 36 and 188: flag.Parse sets *flagExp, false unless -experimental is given
ParseFlags ==
  /\ crPc = "flags"
  /\ flagExp' \in BOOLEAN
  /\ crPc' = "plugins"
  /\ UNCHANGED <<run, fsState, repoCfg, keysGenerated, crRet, mkErr, crMsg, pluginLoads,
                 crPanic, creates, pluginInits, crSteps>>
  /\ UNCHANGED <<ctxCancelled, connVars, fetchVars>>

\* a step of create whose error is ignored
ContinueOnErr(ok, next) == next

\* lines 233-235, 239-241, 245-247, 258-260, 263-265: create panics on the
\* error of a step and goes on to the next step otherwise
PanicOnErr(ok, next) == IF ok THEN next ELSE "panicked"

\* lines 106-123: what a call of setupPlugins can come to: the loader
\* cannot be made, plugins.Initialize fails, plugins.Inject fails, or all
\* three succeed. Nothing in setupPlugins or create looks at whether the
\* process has set its plugins up before.
SetupOutcomes == {"load", "initialize", "inject", "ok"}

\* lines 233-235: create calls setupPlugins and panics on its error
SetupPlugins ==
  /\ crPc = "plugins"
  /\ \E out \in SetupOutcomes :
       /\ pluginInits' = IF out \in {"inject", "ok"} THEN pluginInits + 1 ELSE pluginInits
       /\ pluginLoads' = IF out = "ok" THEN pluginLoads + 1 ELSE pluginLoads
       /\ crPc' = PanicOnErr(out = "ok", "createRepo")
       /\ crPanic' = IF out = "ok" THEN crPanic ELSE "plugins"
       /\ crSteps' = Append(crSteps, [step |-> "plugins", ok |-> (out = "ok")])
  /\ UNCHANGED <<run, flagExp, fsState, repoCfg, keysGenerated, crRet, mkErr, crMsg,
                 creates>>
  /\ UNCHANGED <<ctxCancelled, connVars, fetchVars>>

\* line 195, os.Mkdir: EEXIST when the path exists, another error when the
\* parent does not allow the creation, nil when the directory was created
MkdirErr(fs, denied) ==
  IF fs # "absent" THEN "EEXIST"
  ELSE IF denied THEN "EACCES"
  ELSE "nil"

\* a config in which the flag sets the filestore alone
NewCfgFilestoreOnly(keys, flag) ==
  [identity |-> keys + 1, keySize |-> KeySize,
   exp |-> [t \in Toggles |-> flag /\ t = "FilestoreEnabled"]]

\* lines 199-217: the config of a new repository: a fresh identity, a 2048
\* bit key, and the six experimental features all set to the flag
NewCfg(keys, flag) ==
  [identity |-> keys + 1, keySize |-> KeySize, exp |-> [t \in Toggles |-> flag]]

\* an else branch that applies this run's flag to the repository found
CfgAfterExistsReflagged(cfg, flag) == [cfg EXCEPT !.exp = [t \in Toggles |-> flag]]

\* lines 224-226: the else branch prints and leaves the location as found
CfgAfterExists(cfg, flag) == cfg

\* lines 191-229, and the check of its error in create, lines 238-241
CreateRepo ==
  /\ crPc = "createRepo"
  /\ \E denied \in BOOLEAN, cfgOk \in BOOLEAN, initOk \in BOOLEAN :
       LET e == MkdirErr(fsState, denied)
           cfg == NewCfg(keysGenerated, flagExp)
           ret == IF e # "nil" THEN [path |-> RepoPath, err |-> "nil"]
                  ELSE IF ~cfgOk THEN [path |-> "", err |-> "config.Init"]
                  ELSE IF ~initOk THEN [path |-> "", err |-> "failed to init ephemeral node"]
                  ELSE [path |-> RepoPath, err |-> "nil"]
       IN  /\ mkErr' = e
           /\ crMsg' = IF e = "nil" THEN "creating" ELSE "exists"
           /\ crRet' = ret
           /\ fsState' = IF e # "nil" THEN fsState
                         ELSE IF cfgOk /\ initOk THEN "repo" ELSE "dir"
           /\ repoCfg' = IF e # "nil" THEN CfgAfterExists(repoCfg, flagExp)
                         ELSE IF cfgOk /\ initOk THEN cfg ELSE repoCfg
           /\ keysGenerated' = IF e = "nil" /\ cfgOk THEN keysGenerated + 1
                               ELSE keysGenerated
           /\ crPc' = PanicOnErr(ret.err = "nil", "open")
           /\ crPanic' = IF ret.err = "nil" THEN crPanic ELSE "repo"
           /\ crSteps' = Append(crSteps, [step |-> "createRepo", ok |-> (ret.err = "nil")])
  /\ UNCHANGED <<run, flagExp, pluginLoads, creates, pluginInits>>
  /\ UNCHANGED <<ctxCancelled, connVars, fetchVars>>

\* line 244, fsrepo.Open: only an initialized, readable repository opens
OpenErr(fs) ==
  CASE fs = "repo" -> "nil"
    [] fs = "absent" -> "no IPFS repo found"
    [] fs = "dir" -> "no IPFS repo found"
    [] fs = "corrupt" -> "corrupt"

\* lines 244-247
OpenRepo ==
  /\ crPc = "open"
  /\ crPc' = PanicOnErr(OpenErr(fsState) = "nil", "newNode")
  /\ crPanic' = IF OpenErr(fsState) = "nil" THEN crPanic ELSE "open"
  /\ crSteps' = Append(crSteps, [step |-> "open", ok |-> (OpenErr(fsState) = "nil")])
  /\ UNCHANGED <<run, flagExp, fsState, repoCfg, keysGenerated, crRet, mkErr, crMsg,
                 pluginLoads, creates, pluginInits>>
  /\ UNCHANGED <<ctxCancelled, connVars, fetchVars>>

\* lines 250-260: core.NewNode, online with the DHT client routing option
NewNode ==
  /\ crPc = "newNode"
  /\ \E ok \in BOOLEAN :
       /\ crPc' = PanicOnErr(ok, "newCoreAPI")
       /\ crPanic' = IF ok THEN crPanic ELSE "node"
       /\ crSteps' = Append(crSteps, [step |-> "newNode", ok |-> ok])
  /\ UNCHANGED <<run, flagExp, fsState, repoCfg, keysGenerated, crRet, mkErr, crMsg,
                 pluginLoads, creates, pluginInits>>
  /\ UNCHANGED <<ctxCancelled, connVars, fetchVars>>

\* lines 262-269: coreapi.NewCoreAPI, then the handle is returned
NewCoreAPI ==
  /\ crPc = "newCoreAPI"
  /\ \E ok \in BOOLEAN :
       /\ crPc' = PanicOnErr(ok, "ready")
       /\ crPanic' = IF ok THEN crPanic ELSE "api"
       /\ crSteps' = Append(crSteps, [step |-> "newCoreAPI", ok |-> ok])
  /\ UNCHANGED <<run, flagExp, fsState, repoCfg, keysGenerated, crRet, mkErr, crMsg,
                 pluginLoads, creates, pluginInits>>
  /\ UNCHANGED <<ctxCancelled, connVars, fetchVars>>

\* the program is run again on the same machine: a new process, with its own
\* flag variable and plugin registry, finds RepoPath as the last run left it
StartProcess ==
  /\ crPc \in {"ready", "panicked"}
  /\ run < MaxRuns
  /\ run' = run + 1
  /\ flagExp' = FALSE
  /\ crPc' = "flags"
  /\ crRet' = [path |-> "", err |-> "none"]
  /\ mkErr' = "none"
  /\ crMsg' = "none"
  /\ pluginLoads' = 0
  /\ crPanic' = "none"
  /\ creates' = 1
  /\ pluginInits' = 0
  /\ crSteps' = << >>
  /\ UNCHANGED <<fsState, repoCfg, keysGenerated>>
  /\ UNCHANGED <<ctxCancelled, connVars, fetchVars>>

\* line 232: create is called again in a process whose earlier call returned
\* a handle; the plugin registry of the process is what that call left
CreateAgain ==
  /\ crPc = "ready"
  /\ creates < MaxCreates
  /\ creates' = creates + 1
  /\ crPc' = "plugins"
  /\ crRet' = [path |-> "", err |-> "none"]
  /\ mkErr' = "none"
  /\ crMsg' = "none"
  /\ crSteps' = << >>
  /\ UNCHANGED <<run, flagExp, fsState, repoCfg, keysGenerated, pluginLoads, crPanic,
                 pluginInits>>
  /\ UNCHANGED <<ctxCancelled, connVars, fetchVars>>

\* the repository's files are damaged from outside the program
CorruptRepo ==
  /\ fsState = "repo"
  /\ fsState' = "corrupt"
  /\ UNCHANGED <<run, flagExp, repoCfg, keysGenerated, crPc, crRet, mkErr, crMsg,
                 pluginLoads, crPanic, creates, pluginInits, crSteps>>
  /\ UNCHANGED <<ctxCancelled, connVars, fetchVars>>

NextRepo ==
  \/ ParseFlags
  \/ SetupPlugins
  \/ CreateRepo
  \/ OpenRepo
  \/ NewNode
  \/ NewCoreAPI
  \/ StartProcess
  \/ CreateAgain
  \/ CorruptRepo

SpecRepo == Init /\ [][NextRepo]_vars

\* ----------------------------------------------------------- add, fetch, get

\* the textual encoding of a CID: its prefix tells the encoding, the rest
\* is the hash of the DAG
CidString(c) == <<IF c.params = "v0" THEN "Qm" ELSE "bafy", c.data>>

\* the CID strings callers hand to fetch and get
CidInputs == {CidString(c) : c \in AllCids} \cup {<<"not-a-valid-cid">>}

\* decoding a CID string; NoCid when it is none
ParseCid(s) ==
  IF Len(s) = 2 /\ s[1] \in {"Qm", "bafy"} /\ s[2] \in Datas
  THEN [data |-> s[2], params |-> IF s[1] = "Qm" THEN "v0" ELSE "v1"]
  ELSE NoCid

\* lines 307 and 324, icorepath.New: the string becomes the path /ipfs/<string>
PathNew(s) == <<"ipfs">> \o s

\* resolving a path to the CID it names; NoCid for a path that names none
ResolvePath(path) ==
  IF Len(path) > 1 /\ path[1] = "ipfs" THEN ParseCid(Tail(path)) ELSE NoCid

\* lines 309 and 326, Unixfs().Get under the context: an invalid path is an
\* error; a cancelled context may end the call with the context's error;
\* content in the local store is served from it; other content is pulled
\* from the network when the network is up and has it, and the blocks pulled
\* may or may not be kept in the local store; otherwise the call blocks.
UnixfsGetOutcomes(path, store, up, cancelled) ==
  LET c == ResolvePath(path)
  IN  IF c = NoCid
      THEN {[err |-> "invalid path", data |-> "none", store |-> store, src |-> "none"]}
      ELSE (IF cancelled
            THEN {[err |-> "context canceled", data |-> "none", store |-> store,
                   src |-> "none"]}
            ELSE {})
           \cup
           (IF c \in store
            THEN {[err |-> "nil", data |-> c.data, store |-> store, src |-> "local"]}
            ELSE IF up /\ c \in NetBlocks
            THEN {[err |-> "nil", data |-> c.data, store |-> st, src |-> "network"] :
                    st \in {store, store \cup {c}}}
            ELSE {})

\* an import with parameters other than the defaults
AddCidOtherParams(data) == [data |-> data, params |-> "v1"]

\* line 284, Unixfs().Add without options: the CID is derived from the
\* content with the default import parameters
AddCid(data) == [data |-> data, params |-> "v0"]

\* an add that computes the CID and stores nothing
StoreUnchanged(store, c) == store

\* line 284: the imported DAG is written to the local store
StoreAfterAdd(store, c) == store \cup {c}

\* line 284, Unixfs().Add under the context: the import succeeds, or the
\* store fails, or a cancelled context ends it
UnixfsAddOutcomes(data, store, cancelled) ==
  {[err |-> "nil", cid |-> AddCid(data), store |-> StoreAfterAdd(store, AddCid(data))],
   [err |-> "store write", cid |-> NoCid, store |-> store]}
    \cup
  (IF cancelled
   THEN {[err |-> "context canceled", cid |-> NoCid, store |-> store]}
   ELSE {})

\* lines 295-307: fetch starts the goroutine that calls connectToPeers with
\* the bootstrap list, builds the path and calls Unixfs().Get
FetchCall(s) ==
  /\ ~crashed
  /\ fPc = "idle"
  /\ gPc = "idle"
  /\ connPc = "idle"
  /\ fCid' = s
  /\ fPc' = "resolving"
  /\ peers' = BootstrapNodes
  /\ connPc' = "called"
  /\ UNCHANGED <<connRet, peerInfos, wg, gor, dials, dialRes, connected, connLog>>
  /\ UNCHANGED <<netUp, localStore, fContent, fRet, fErr, fCalls, gPc, gCid, gRet, gErr,
                 gSrc, crashed>>
  /\ UNCHANGED <<ctxCancelled, repoVars>>

\* a fetch that resolves again when the resolution failed
PcAfterGetRetry(err) == IF err = "nil" THEN "adding" ELSE "resolving"

\* lines 310-314: a failed resolution panics, a successful one goes on to add
PcAfterGet(err) == IF err = "nil" THEN "adding" ELSE "panicked"

\* lines 309-312: Unixfs().Get returns; fetch panics on its error
FetchGetReturn ==
  /\ ~crashed
  /\ fPc = "resolving"
  /\ \E r \in UnixfsGetOutcomes(PathNew(fCid), localStore, netUp, ctxCancelled) :
       /\ fErr' = r.err
       /\ fContent' = r.data
       /\ localStore' = r.store
       /\ fPc' = PcAfterGet(r.err)
       /\ crashed' = (fPc' = "panicked")
       /\ fCalls' = Append(fCalls, [op |-> "get", err |-> r.err])
  /\ UNCHANGED <<netUp, fCid, fRet, gPc, gCid, gRet, gErr, gSrc>>
  /\ UNCHANGED <<ctxCancelled, connVars, repoVars>>

\* lines 314-317 and 282-292: add imports the content, panics on an error,
\* and fetch returns the path add returned
FetchAddReturn ==
  /\ ~crashed
  /\ fPc = "adding"
  /\ \E r \in UnixfsAddOutcomes(fContent, localStore, ctxCancelled) :
       /\ fErr' = r.err
       /\ fRet' = r.cid
       /\ localStore' = r.store
       /\ fPc' = IF r.err = "nil" THEN "done" ELSE "panicked"
       /\ crashed' = (r.err # "nil")
       /\ fCalls' = Append(fCalls, [op |-> "add", err |-> r.err])
  /\ UNCHANGED <<netUp, fCid, fContent, gPc, gCid, gRet, gErr, gSrc>>
  /\ UNCHANGED <<ctxCancelled, connVars, repoVars>>

\* lines 321-326: get builds the path and calls Unixfs().Get
GetCall(s) ==
  /\ ~crashed
  /\ gPc \in {"idle", "done"}
  /\ fPc \in {"idle", "done"}
  /\ gCid' = s
  /\ gPc' = "resolving"
  /\ gRet' = "none"
  /\ gErr' = "none"
  /\ gSrc' = "none"
  /\ UNCHANGED <<netUp, localStore, fPc, fCid, fContent, fRet, fErr, fCalls, crashed>>
  /\ UNCHANGED <<ctxCancelled, connVars, repoVars>>

\* lines 326-331: Unixfs().Get returns; get panics on its error
GetReturn ==
  /\ ~crashed
  /\ gPc = "resolving"
  /\ \E r \in UnixfsGetOutcomes(PathNew(gCid), localStore, netUp, ctxCancelled) :
       /\ gErr' = r.err
       /\ gRet' = r.data
       /\ gSrc' = r.src
       /\ localStore' = r.store
       /\ gPc' = IF r.err = "nil" THEN "done" ELSE "panicked"
       /\ crashed' = (r.err # "nil")
  /\ UNCHANGED <<netUp, fPc, fCid, fContent, fRet, fErr, fCalls, gCid>>
  /\ UNCHANGED <<ctxCancelled, connVars, repoVars>>

\* the network becomes unreachable
NetDown ==
  /\ netUp
  /\ netUp' = FALSE
  /\ UNCHANGED <<localStore, fPc, fCid, fContent, fRet, fErr, fCalls, gPc, gCid, gRet,
                 gErr, gSrc, crashed>>
  /\ UNCHANGED <<ctxCancelled, connVars, repoVars>>

NextFetch ==
  \/ \E s \in CidInputs : FetchCall(s)
  \/ ConnParse
  \/ ConnReturn
  \/ FetchGetReturn
  \/ FetchAddReturn
  \/ \E s \in CidInputs : GetCall(s)
  \/ GetReturn
  \/ NetDown
  \/ Cancel

SpecFetch == Init /\ [][NextFetch]_vars

\* ------------------------------------------- properties of connectToPeers

Range(f) == {f[i] : i \in DOMAIN f}

WellFormed(ps) == \A i \in 1..Len(ps) : ParseErr(ps[i]) = "nil"

\* the identities named by an address list, read off the strings
Identities(ps) == {ps[i][Len(ps[i])] : i \in 1..Len(ps)}

\* the transport addresses an address list gives for an identity
AddrsGiven(ps, id) ==
  {SubSeq(ps[i], 1, Len(ps[i]) - 2) :
     i \in {j \in 1..Len(ps) : ps[j][Len(ps[j])] = id /\ Len(ps[j]) > 2}}

ConnStarted == connPc \notin {"idle", "called"}

\* C1: for a list of well-formed addresses no identity is ever dialled
\* twice, every dial is handed exactly the addresses the list gives for its
\* identity, and when the call has returned the identities dialled are
\* exactly the distinct identities of the list, each dialled once.
C1_OneDialPerIdentity ==
  (ConnStarted /\ WellFormed(peers)) =>
    /\ \A id \in PeerIDs :
         /\ Len(dials[id]) <= 1
         /\ Len(dials[id]) = 1 =>
              /\ id \in Identities(peers)
              /\ Range(dials[id][1]) = AddrsGiven(peers, id)
    /\ DOMAIN peerInfos = Identities(peers)
    /\ connPc = "returned" =>
         {id \in PeerIDs : Len(dials[id]) = 1} = Identities(peers)

\* two strings for one identity with different transports: one dial, both addresses
C1_Witness ==
  /\ connPc = "returned"
  /\ Len(peers) = 3
  /\ Identities(peers) = PeerIDs
  /\ WellFormed(peers)
  /\ \E id \in PeerIDs :
       /\ Len(dials[id]) = 1
       /\ Cardinality(Range(dials[id][1])) = 2

\* C2: when connectToPeers has returned nil, every dial it spawned has
\* finished; the WaitGroup counter is the number of spawned-or-pending
\* tasks that have not finished, and is zero at the return.
C2_JoinBeforeReturn ==
  /\ (connPc \in {"spawning", "waiting", "returned"}) =>
       wg = Cardinality({id \in DOMAIN peerInfos : gor[id] # "done"})
  /\ (connPc = "returned" /\ connRet = "nil") =>
       /\ wg = 0
       /\ \A id \in PeerIDs : gor[id] \in {"none", "done"}
       /\ \A id \in DOMAIN peerInfos : gor[id] = "done"

\* a return after two dials, one of which failed
C2_Witness ==
  /\ connPc = "returned"
  /\ connRet = "nil"
  /\ \A id \in PeerIDs : gor[id] = "done"
  /\ \E id \in PeerIDs : dialRes[id] = "failed"

\* C3: dial failures do not fail the call: a call on well-formed addresses
\* returns nil with every identity dialled and every dial that did not fail
\* connected; a spawned dial can start whatever became of the other dials,
\* and the spawn loop goes on whatever became of them.
C3_PartialFailure ==
  /\ (connPc = "returned" /\ WellFormed(peers)) =>
       /\ connRet = "nil"
       /\ \A id \in Identities(peers) :
            /\ dialRes[id] # "none"
            /\ dialRes[id] = "ok" => id \in connected
  /\ \A id \in PeerIDs : gor[id] = "spawned" => ENABLED DialStart(id)
  /\ \A id \in DOMAIN peerInfos :
       (connPc = "spawning" /\ gor[id] = "none") => ENABLED SpawnDial(id)

\* one dial failed, the other connected, the call returned nil
C3_Witness ==
  /\ connPc = "returned"
  /\ connRet = "nil"
  /\ \E a, b \in PeerIDs :
       /\ dialRes[a] = "failed"
       /\ dialRes[b] = "ok"
       /\ b \in connected

\* the other dial starts after a dial has failed
C3_WitnessStartAfterFailure ==
  \E a, b \in PeerIDs : dialRes[a] = "failed" /\ gor[b] = "dialing"

\* C4: a list with a malformed address makes the call return a non-nil
\* error with no dial spawned or started for any identity.
C4_MalformedFailsFast ==
  (ConnStarted /\ ~WellFormed(peers)) =>
    /\ connPc = "returned"
    /\ connRet \notin {"none", "nil"}
    /\ wg = 0
    /\ \A id \in PeerIDs : gor[id] = "none" /\ dials[id] = << >>
    /\ connected = {}

\* a well-formed address precedes the malformed one
C4_Witness ==
  /\ connPc = "returned"
  /\ connRet = "invalid p2p multiaddr"
  /\ Len(peers) = 3
  /\ ParseErr(peers[1]) = "nil"
  /\ ParseErr(peers[2]) = "nil"
  /\ \A id \in PeerIDs : dials[id] = << >>


\* ------------------------------------------------ properties of createRepo

\* the step in which create calls createRepo and checks its error
CreateRepoStep == crPc = "createRepo" /\ crPc' # "createRepo"

\* C5: a createRepo call on a location that holds a repository writes
\* nothing and generates nothing: the location, its identity and its
\* configuration are after the call what they were before it, whatever the
\* experimental flag of the call, and the call returns the path.
C5_InitIdempotent ==
  [][(CreateRepoStep /\ fsState = "repo") =>
       /\ fsState' = "repo"
       /\ repoCfg' = repoCfg
       /\ keysGenerated' = keysGenerated
       /\ crRet' = [path |-> RepoPath, err |-> "nil"]]_vars

\* a later run, with the other value of the flag, found the repository
C5_Witness ==
  /\ run >= 2
  /\ crPc = "open"
  /\ crMsg = "exists"
  /\ fsState = "repo"
  /\ repoCfg.identity = 1
  /\ \E t \in Toggles : repoCfg.exp[t] # flagExp

\* C6: when os.Mkdir fails for another reason than the directory existing,
\* createRepo returns an error (and never reports "repo already exists").
C6_MkdirFailureIsInitError ==
  (mkErr \notin {"none", "nil", "EEXIST"}) =>
    /\ crRet.err # "nil"
    /\ crMsg # "exists"


\* ---------------------------------------------------- properties of create

\* C11: the process initializes and injects its plugins at most once,
\* however often create is called, and no node is constructed before the
\* plugins of that call of create were set up.
C11_PluginsOncePerProcess ==
  /\ pluginInits <= 1
  /\ pluginLoads <= 1
  /\ \A i \in 1..Len(crSteps) :
       crSteps[i].step = "newNode" =>
         \E j \in 1..(i - 1) : crSteps[j] = [step |-> "plugins", ok |-> TRUE]

\* the steps of create, in the order of the code
CreateOrder == <<"plugins", "createRepo", "open", "newNode", "newCoreAPI">>

\* C14: the steps create has executed are an initial part of plugin setup,
\* repository creation, repository open, node construction, API
\* construction, in that order; only the last step executed may have
\* failed; create has returned a handle exactly when all five were executed
\* and succeeded, and has panicked exactly when the last one executed failed.
C14_NoPartialNode ==
  /\ Len(crSteps) <= Len(CreateOrder)
  /\ \A i \in 1..Len(crSteps) :
       /\ crSteps[i].step = CreateOrder[i]
       /\ i < Len(crSteps) => crSteps[i].ok
  /\ crPc = "ready" <=>
       (Len(crSteps) = Len(CreateOrder) /\ \A i \in 1..Len(crSteps) : crSteps[i].ok)
  /\ crPc = "panicked" <=>
       (Len(crSteps) > 0 /\ ~crSteps[Len(crSteps)].ok)
  /\ crPc = "panicked" => crPanic # "none"

\* node construction failed after three good steps: no API step, no handle
C14_Witness ==
  /\ crPc = "panicked"
  /\ crPanic = "node"
  /\ Len(crSteps) = 4
  /\ ~crSteps[4].ok

\* C15 as stated: every combination of the six toggles can be requested:
\* for each there is a value of the program's flag with which a new
\* repository's configuration carries exactly that combination.
C15_TogglesIndependentlySettable ==
  crPc = "createRepo" =>
    \A w \in [Toggles -> BOOLEAN] :
       \E f \in BOOLEAN : NewCfg(keysGenerated, f).exp = w

\* C15 as amended: the six toggles of a repository's configuration all have
\* one value, and a configuration written by this run has them all equal to
\* the flag of the run: all true with -experimental, all false without.
C15_TogglesSetTogether ==
  /\ \A t1, t2 \in Toggles : repoCfg.exp[t1] = repoCfg.exp[t2]
  /\ (crMsg = "creating" /\ crRet.err = "nil") =>
       /\ repoCfg.keySize = KeySize
       /\ \A t \in Toggles : repoCfg.exp[t] = flagExp

\* a repository created with -experimental: all six toggles are true
C15_Witness ==
  /\ crMsg = "creating"
  /\ crRet.err = "nil"
  /\ fsState = "repo"
  /\ flagExp
  /\ \A t \in Toggles : repoCfg.exp[t]

\* C16: when createRepo has returned the path without error (os.Mkdir
\* having created the directory or found it existing), the location holds
\* an initialized repository, and a bare directory is not reported as an
\* existing repository.
C16_ReturnedPathIsInitialized ==
  (crRet.err = "nil" /\ mkErr \in {"nil", "EEXIST"}) =>
    fsState \in {"repo", "corrupt"}

\* ---------------------------------------------- properties of fetch and get

\* get was called after fetch returned, with the CID string s
GetAfterFetch(s) == fPc = "done" /\ gPc # "idle" /\ gCid = s

\* the local store alone can serve the CID string s
LocalServes(s) ==
  \E r \in UnixfsGetOutcomes(PathNew(s), localStore, FALSE, FALSE) :
     r.err = "nil" /\ r.src = "local"

\* C7 as stated: once fetch has returned, a get of the CID string that was
\* requested can be served by the local store alone, and a get that
\* returned was served by it.
C7_GetRequestedFromLocalStore ==
  /\ fPc = "done" => LocalServes(fCid)
  /\ (GetAfterFetch(fCid) /\ gPc = "done") => gSrc = "local"

\* C7 as amended: once fetch has returned, the CID it returned is in the
\* local store; a get of that CID can be served by the local store alone,
\* with the network up or down; a get of it that returned was served by the
\* local store and returned the content fetch resolved; and a get of it
\* fails only on a cancelled context.
C7_GetReturnedFromLocalStore ==
  /\ fPc = "done" =>
       /\ fRet \in localStore
       /\ LocalServes(CidString(fRet))
  /\ (GetAfterFetch(CidString(fRet)) /\ gPc = "done") =>
       /\ gSrc = "local"
       /\ gRet = fContent
  /\ (GetAfterFetch(CidString(fRet)) /\ gPc = "panicked") => gErr = "context canceled"

\* fetch of a CID that add does not re-derive, the network then down, and
\* get of the returned CID served locally
C7_Witness ==
  /\ fPc = "done"
  /\ CidString(fRet) # fCid
  /\ ~netUp
  /\ gPc = "done"
  /\ gCid = CidString(fRet)
  /\ gSrc = "local"
  /\ ParseCid(fCid) \notin localStore

\* C8 as stated: the path fetch returns carries the CID that was requested.
C8_FetchReturnsRequestedCid ==
  fPc = "done" => CidString(fRet) = fCid

\* C8 as amended: the path fetch returns carries the CID add derives from
\* the resolved content with the default import parameters; its string is
\* the requested one exactly when the requested CID is that CID.
C8_FetchReturnsRederivedCid ==
  fPc = "done" =>
    /\ fRet = [data |-> ParseCid(fCid).data, params |-> "v0"]
    /\ fContent = ParseCid(fCid).data
    /\ (CidString(fRet) = fCid) <=> (ParseCid(fCid).params = "v0")

\* a fetch of a CID made with the default parameters returned that CID
C8_Witness ==
  /\ fPc = "done"
  /\ fCid = <<"Qm", "d2">>
  /\ CidString(fRet) = fCid

\* C9: a get that met a resolution error returned it: it did not panic and
\* the process goes on.
C9_GetReturnsErrorValue ==
  (gPc \notin {"idle", "resolving"} /\ gErr \notin {"none", "nil"}) =>
    /\ gPc # "panicked"
    /\ ~crashed

\* C10: a fetch or get whose resolution or import was ended by the
\* cancellation of the context returned the error to its caller.
C10_CancelReportsError ==
  /\ fErr = "context canceled" => (fPc # "panicked" /\ ~crashed)
  /\ gErr = "context canceled" => (gPc # "panicked" /\ ~crashed)


\* C12: a fetch makes at most one resolution and at most one add, the
\* resolution first; the add is made only after the resolution succeeded;
\* a failed resolution or add is the last call of the fetch, which has then
\* panicked; a fetch that returned made both calls, both successful.
C12_OneResolveThenOneAdd ==
  /\ Len(fCalls) <= 2
  /\ Len(fCalls) >= 1 => fCalls[1].op = "get"
  /\ Len(fCalls) = 2 => (fCalls[1].err = "nil" /\ fCalls[2].op = "add")
  /\ fPc \in {"idle", "resolving"} => fCalls = << >>
  /\ fPc = "adding" => fCalls = <<[op |-> "get", err |-> "nil"]>>
  /\ fPc = "done" =>
       fCalls = <<[op |-> "get", err |-> "nil"], [op |-> "add", err |-> "nil"]>>
  /\ fPc = "panicked" <=>
       (Len(fCalls) > 0 /\ fCalls[Len(fCalls)].err # "nil")

\* the add failed after a successful resolution, and the fetch ended there
C12_Witness ==
  /\ fPc = "panicked"
  /\ Len(fCalls) = 2
  /\ fCalls[2] = [op |-> "add", err |-> "store write"]

\* fetch has ended: it returned or it panicked
FetchEnded == fPc \in {"done", "panicked"}

\* C13: when fetch has ended, the connectToPeers call it started has
\* returned, and no resolution of the fetch has returned before that call
\* has.
C13_ConnectJoinedByFetch ==
  /\ FetchEnded => connPc = "returned"
  /\ fCalls # << >> => connPc = "returned"

\* C17: connectToPeers returns nil exactly when every address of the list
\* parses, and the parse error of the first bad address otherwise; the
\* outcomes of the dials and the state of the context do not enter into it;
\* for the empty list it returns nil without a dial.
C17_ReturnDependsOnParsingOnly ==
  connPc = "returned" =>
    /\ connRet = "nil" <=> WellFormed(peers)
    /\ ~WellFormed(peers) =>
         \E i \in 1..Len(peers) :
            /\ connRet = ParseErr(peers[i])
            /\ ParseErr(peers[i]) # "nil"
            /\ \A j \in 1..(i - 1) : ParseErr(peers[j]) = "nil"
    /\ peers = << >> => \A id \in PeerIDs : dials[id] = << >>

\* every dial failed, one of them on the cancelled context: nil all the same
C17_Witness ==
  /\ connPc = "returned"
  /\ connRet = "nil"
  /\ ctxCancelled
  /\ \A id \in PeerIDs : dialRes[id] \in {"failed", "cancelled"}
  /\ \E id \in PeerIDs : dialRes[id] = "cancelled"

=============================================================================
